---- MODULE Spec2Model ----
(***************************************************************************)
(* Facial-expression authentication backend: the decision function         *)
(* compare_facial_expressions (app/utils/face_processing.py) and the login *)
(* protocol built on it (app/api/auth_routes.py, app/api/facial_routes.py).*)
(* The simulated extractor and find_matches_in_directory are modelled with *)
(* the module-level random generator they share, called one after another  *)
(* and from concurrent request threads.                                    *)
(*                                                                         *)
(* Floating-point values are fixed-point integers: a similarity, distance, *)
(* weight or threshold v is the integer v * Scale, and a confidence c is   *)
(* the integer c * Scale * Scale (the product of two such values).         *)
(***************************************************************************)
EXTENDS Integers, Sequences, FiniteSets, TLC

VARIABLES
    deepface,   \* DEEPFACE_AVAILABLE, fixed when the module is imported
    users,      \* rows of the users table: id -> password, for registered ids
    facial,     \* rows of the facial_data table (a set of records)
    files,      \* image files present under uploads/
    nextFile,   \* number of file names handed out so far
    session,    \* per user: state of the login session; a session starts
                \* with a successful login and ends when a token is issued
    pwdOk,      \* per user: the password was verified in the open session
    faceOk,     \* per user: login-verify returned match=true in the open
                \* session
    resp,       \* the response of the last request
    din,        \* arguments of one call of compare_facial_expressions
    dout,       \* its result
    rng,        \* the state of the module-level generator of random
    threads,    \* requests in flight: thread -> position and local variables
    first,      \* input -> the first observation the extractor returned
    last,       \* the last call of an engine function and its result
    enrollments, \* rows committed by the request threads so far (history)
    stream      \* the frame counter the streaming client holds, and the
                \* number of frames with a face it sent in a row (history)

vars == <<deepface, users, facial, files, nextFile, session, pwdOk, faceOk,
          resp, din, dout, rng, threads, first, last, enrollments, stream>>

engineVars == <<rng, threads, first, last, enrollments, stream>>

protoVars == <<users, facial, files, nextFile, session, pwdOk, faceOk, resp>>

-----------------------------------------------------------------------------
(* Numbers *)

\* the float 1.0
Scale == 1000

\* range(128) and the divisor 128 of the simulated similarity
EncodingDim == 128

\* current_app.config.get('FACIAL_AUTH_THRESHOLD', 0.6)
DefaultThreshold == 600

\* current_app.config.get('FACIAL_EMOTION_WEIGHT', 0.3)
DefaultEmotionWeight == 300

\* confidence = 0.8 * face_similarity + 0.2
FaceFactor == 800

EmotionBonus == 200

\* emotion_match and face_distance < 0.6
AlternativeDistance == 600

\* largest distance the identity verifier is drawn from (cosine distance <= 2)
MaxDistance == 2000

Max(a, b) == IF a >= b THEN a ELSE b

Min(a, b) == IF a <= b THEN a ELSE b

Abs(a) == IF a >= 0 THEN a ELSE 0 - a

-----------------------------------------------------------------------------
(* Python values *)

\* a dict: the keys present and the value under each key
Dict(ks, v) == [isDict |-> TRUE, keys |-> ks, val |-> v]

\* dict.get(key, default)
Get(d, k, default) == IF k \in d.keys THEN d.val[k] ELSE default

\* a list of numbers, or a list holding something that is not a number
List(numeric, elems) == [numeric |-> numeric, elems |-> elems]

EmptyList == List(TRUE, <<>>)

\* the path None
NoPath == <<"None">>

\* (matched, confidence) returned to the caller; unlinked: files removed
Return(m, c, un) ==
    [kind |-> "return", matched |-> m, confidence |-> c, unlinked |-> un]

\* an exception leaving the enclosing block
Raise(un) ==
    [kind |-> "raise", matched |-> FALSE, confidence |-> 0, unlinked |-> un]

-----------------------------------------------------------------------------
(* compare_facial_expressions, identity-verify mode *)

\* mutant: the distance is not clamped to 1.0
FaceSimilarity_NoClamp(face_distance) == Scale - face_distance

\* face_similarity = 1.0 - min(face_distance, 1.0)
FaceSimilarity(face_distance) == Scale - Min(face_distance, Scale)

\* mutant: a verified face is accepted whatever the expression
DeepFaceDecision_NoVeto(face_verified, face_distance, emotion_match) ==
    IF face_verified
    THEN [matched |-> TRUE,
          confidence |-> FaceFactor * (Scale - Min(face_distance, Scale))
                         + EmotionBonus * Scale]
    ELSE IF emotion_match /\ face_distance < AlternativeDistance
    THEN [matched |-> TRUE,
          confidence |-> Max(0, Scale - face_distance) * Scale]
    ELSE [matched |-> FALSE, confidence |-> 0]

\* mutant: the alternative approach looks at the distance only
DeepFaceDecision_DistanceOnly(face_verified, face_distance, emotion_match) ==
    IF face_verified /\ emotion_match
    THEN [matched |-> TRUE,
          confidence |-> FaceFactor * (Scale - Min(face_distance, Scale))
                         + EmotionBonus * Scale]
    ELSE IF face_verified /\ ~emotion_match
    THEN [matched |-> FALSE, confidence |-> 0]
    ELSE IF face_distance < AlternativeDistance
    THEN [matched |-> TRUE,
          confidence |-> Max(0, Scale - face_distance) * Scale]
    ELSE [matched |-> FALSE, confidence |-> 0]

\* mutant: the both-pass confidence leaves out the bonus 0.2
DeepFaceDecision_NoBonus(face_verified, face_distance, emotion_match) ==
    IF face_verified /\ emotion_match
    THEN [matched |-> TRUE,
          confidence |-> FaceFactor * (Scale - Min(face_distance, Scale))]
    ELSE IF face_verified /\ ~emotion_match
    THEN [matched |-> FALSE, confidence |-> 0]
    ELSE IF emotion_match /\ face_distance < AlternativeDistance
    THEN [matched |-> TRUE,
          confidence |-> Max(0, Scale - face_distance) * Scale]
    ELSE [matched |-> FALSE, confidence |-> 0]

\* mutant: the alternative approach accepts the distance 0.6 itself
DeepFaceDecision_Inclusive(face_verified, face_distance, emotion_match) ==
    IF face_verified /\ emotion_match
    THEN [matched |-> TRUE,
          confidence |-> FaceFactor * (Scale - Min(face_distance, Scale))
                         + EmotionBonus * Scale]
    ELSE IF face_verified /\ ~emotion_match
    THEN [matched |-> FALSE, confidence |-> 0]
    ELSE IF emotion_match /\ face_distance <= AlternativeDistance
    THEN [matched |-> TRUE,
          confidence |-> Max(0, Scale - face_distance) * Scale]
    ELSE [matched |-> FALSE, confidence |-> 0]

\* the three-way decision on the verifier's result
DeepFaceDecision(face_verified, face_distance, emotion_match) ==
    IF face_verified /\ emotion_match
    THEN [matched |-> TRUE,
          confidence |-> FaceFactor * FaceSimilarity(face_distance)
                         + EmotionBonus * Scale]
    ELSE IF face_verified /\ ~emotion_match
    THEN [matched |-> FALSE, confidence |-> 0]
    ELSE IF emotion_match /\ face_distance < AlternativeDistance
    THEN [matched |-> TRUE,
          confidence |-> Max(0, Scale - face_distance) * Scale]
    ELSE [matched |-> FALSE, confidence |-> 0]

\* the temporary file made by tempfile.NamedTemporaryFile
TmpPath == <<"tmp">>

\* Choosing current_image_path. go: DeepFace.verify is reached; raised: an
\* exception left the block; path: current_image_path at that point;
\* created: files the block created.
CurrentImage(stored, current, fs) ==
    IF "verification_image_path" \in current.keys
    THEN [go |-> current.val.verification_image_path \in fs,
          raised |-> FALSE,
          path |-> current.val.verification_image_path, created |-> {}]
    ELSE IF ~(Get(stored, "imagePath", NoPath) \in fs)
    THEN [go |-> FALSE, raised |-> FALSE, path |-> NoPath, created |-> {}]
    ELSE IF "image_array" \in current.keys
    THEN [go |-> TRUE, raised |-> FALSE, path |-> TmpPath,
          created |-> {TmpPath}]
    ELSE IF "imagePath" \in current.keys /\ current.val.imagePath \in fs
    THEN [go |-> TRUE, raised |-> FALSE, path |-> current.val.imagePath,
          created |-> {TmpPath}]
    ELSE IF "imageData" \in current.keys /\ current.val.imageData # "empty"
    THEN [go |-> current.val.imageData = "valid",
          raised |-> FALSE,
          path |-> TmpPath, created |-> {TmpPath}]
    ELSE [go |-> FALSE, raised |-> FALSE, path |-> TmpPath,
          created |-> {TmpPath}]

\* the finally clause: remove current_image_path unless it is the caller's
\* imagePath
Finally(r, current, sel, fs) ==
    IF sel.path # NoPath
       /\ sel.path # Get(current, "imagePath", NoPath)
       /\ sel.path \in (fs \cup sel.created)
    THEN [r EXCEPT !.unlinked = {sel.path}]
    ELSE r

\* except Exception as verify_error: return (False, 0.0)
InnerExcept(r) ==
    IF r.kind = "raise" THEN Return(FALSE, 0, r.unlinked) ELSE r

\* mutant: the outer handler lets the exception through
OuterExcept_Propagates(r) == r

\* except Exception as e (line 362): return (False, 0.0)
OuterExcept(r) ==
    IF r.kind = "raise" THEN Return(FALSE, 0, r.unlinked) ELSE r

\* the inner try block, before its except and finally clauses
VerifyBlock(stored, current, fs, verify, sel) ==
    LET emotion_match == Get(stored, "dominantEmotion", "unknown")
                         = Get(current, "dominantEmotion", "unknown")
    IN  IF ~sel.go
        THEN Return(FALSE, 0, {})
        ELSE IF verify.raises
        THEN Raise({})
        ELSE LET d == DeepFaceDecision(verify.verified, verify.distance,
                                       emotion_match)
             IN  Return(d.matched, d.confidence, {})

\* the body of the outer try block
DeepFaceBody(stored, current, fs, verify) ==
    IF ~stored.isDict \/ ~current.isDict
    THEN Raise({})
    ELSE LET sel == CurrentImage(stored, current, fs)
         IN  Finally(InnerExcept(VerifyBlock(stored, current, fs, verify, sel)),
                     current, sel, fs)

-----------------------------------------------------------------------------
(* compare_facial_expressions, simulated mode *)

RECURSIVE SumAbsDiff(_, _, _, _)
\* similarity_sum += abs(stored_encoding[i] - current_encoding[i]) for i in
\* lo..hi, summed by halves
SumAbsDiff(a, b, lo, hi) ==
    IF lo > hi THEN 0
    ELSE IF lo = hi THEN Abs(a[lo] - b[lo])
    ELSE LET mid == (lo + hi) \div 2
         IN  SumAbsDiff(a, b, lo, mid) + SumAbsDiff(a, b, mid + 1, hi)

\* mutant: the mean difference is returned in place of the similarity
EncodingSimilarity_Distance(stored_encoding, current_encoding) ==
    LET n == Min(Len(stored_encoding), Len(current_encoding))
    IN  Min(Scale, SumAbsDiff(stored_encoding, current_encoding, 1, n)
                   \div EncodingDim)

\* face_similarity = max(0, 1 - (similarity_sum / 128))
EncodingSimilarity(stored_encoding, current_encoding) ==
    LET n == Min(Len(stored_encoding), Len(current_encoding))
    IN  Max(0, Scale - (SumAbsDiff(stored_encoding, current_encoding, 1, n)
                        \div EncodingDim))

\* mutant: the comparison with the threshold is strict
BlendedDecision_Strict(face_similarity, emotion_match, emotion_weight, threshold) ==
    LET emotion_score == IF emotion_match THEN Scale ELSE 0
        confidence == (Scale - emotion_weight) * face_similarity
                      + emotion_weight * emotion_score
    IN  [matched |-> confidence > threshold * Scale,
         confidence |-> confidence]

\* confidence and the comparison with the threshold
BlendedDecision(face_similarity, emotion_match, emotion_weight, threshold) ==
    LET emotion_score == IF emotion_match THEN Scale ELSE 0
        confidence == (Scale - emotion_weight) * face_similarity
                      + emotion_weight * emotion_score
    IN  [matched |-> confidence >= threshold * Scale,
         confidence |-> confidence]

\* the body of the try block of the simulated branch
SimulatedBody(stored, current, threshold, config) ==
    IF ~stored.isDict \/ ~current.isDict
    THEN Raise({})
    ELSE LET stored_encoding == Get(stored, "faceEncoding", EmptyList)
             current_encoding == Get(current, "faceEncoding", EmptyList)
         IN  IF stored_encoding.elems = <<>> \/ current_encoding.elems = <<>>
             THEN Return(FALSE, 0, {})
             ELSE IF ~stored_encoding.numeric \/ ~current_encoding.numeric
             THEN Raise({})
             ELSE LET d == BlendedDecision(
                             EncodingSimilarity(stored_encoding.elems,
                                                current_encoding.elems),
                             Get(stored, "dominantEmotion", "unknown")
                                = Get(current, "dominantEmotion", "unknown"),
                             Get(config, "FACIAL_EMOTION_WEIGHT",
                                 DefaultEmotionWeight),
                             threshold)
                  IN  Return(d.matched, d.confidence, {})

\* except Exception as e (line 405): return (False, 0.0)
SimulatedExcept(r) ==
    IF r.kind = "raise" THEN Return(FALSE, 0, r.unlinked) ELSE r

-----------------------------------------------------------------------------
(* compare_facial_expressions *)

\* thresholdArg is <<>> for None and <<t>> for a given threshold
Threshold(thresholdArg, config) ==
    IF thresholdArg = <<>>
    THEN Get(config, "FACIAL_AUTH_THRESHOLD", DefaultThreshold)
    ELSE thresholdArg[1]

compare_facial_expressions(df, stored, current, arg, config, fs, verify) ==
    LET threshold == Threshold(arg, config)
    IN  IF df
        THEN OuterExcept(DeepFaceBody(stored, current, fs, verify))
        ELSE SimulatedExcept(SimulatedBody(stored, current, threshold, config))

-----------------------------------------------------------------------------
(* Bounds of the model *)

\* user ids 1..MaxUsers
MaxUsers == 1

\* image files that can be saved under uploads/ in one behaviour
MaxFiles == 2

\* largest frameCount a streaming client sends
MaxFrames == 7

\* if frame_count < 5
FramesRequired == 5

\* frameCount of a single request: a frame that is analysed
FrameCounts == {FramesRequired}

UserIds == 1..MaxUsers

\* passwords tried at login; accounts are registered with the first
Passwords == {"pw1", "pw2"}

RegisterPasswords == {"pw1"}

\* request images: imgA and imgB have MD5 digests with the same first four
\* bytes, junk is a string that base64 cannot decode
Images == {"imgA", "imgB", "junk"}

\* labels the real analyser is drawn from
DetectedEmotions == {"happy", "sad"}

-----------------------------------------------------------------------------
(* Feature extraction *)

\* emotions = ['happy', 'neutral', 'sad', 'surprised', 'angry']
emotions == <<"happy", "neutral", "sad", "surprised", "angry">>

EmotionLabels == {emotions[i] : i \in 1..Len(emotions)}

\* int.from_bytes(hash_bytes[:4]) of the MD5 digest of the input
Md5Seed(img) ==
    CASE img = "imgA" -> 7
      [] img = "imgB" -> 7
      [] OTHER -> 5

\* int.from_bytes(hash_bytes[4:8]) of the MD5 digest of the input
Md5Word2(img) ==
    CASE img = "imgA" -> 10
      [] img = "imgB" -> 12
      [] OTHER -> 31

\* the i-th random.uniform(-0.5, 0.5) after random.seed(seed)
Uniform(seed, i) ==
    ((((seed % (Scale + 1)) * 31 + i * 17) * 7919) % (Scale + 1)) - Scale \div 2

\* seeds given to random.seed: MD5 words of the images and clock readings
ClockSeeds == {11, 13}

Seeds == {7, 5} \cup ClockSeeds

\* [random.uniform(-0.5, 0.5) for _ in range(128)] after each seed
EncodingTable ==
    [seed \in Seeds |-> [i \in 1..EncodingDim |-> Uniform(seed, i)]]

\* face_encoding = [random.uniform(-0.5, 0.5) for _ in range(128)]
SeededEncoding(seed) == List(TRUE, EncodingTable[seed])

\* the dicts handled by the routes and by compare_facial_expressions
DataDict(ks, enc, emo, scores) ==
    Dict(ks, [faceEncoding |-> enc, dominantEmotion |-> emo,
              emotionScores |-> scores, imagePath |-> NoPath,
              verification_image_path |-> NoPath, imageData |-> "empty"])

ObservationKeys == {"faceEncoding", "dominantEmotion", "emotionScores"}

\* emotion_scores = {emotion: 0.1 ...}; emotion_scores[dominant] = 0.9
DominantScores(dominant) ==
    [e \in EmotionLabels |-> IF e = dominant THEN 900 ELSE 100]

\* the simulated branch of extract_facial_features on a str input
SimulatedFeatures(img) ==
    LET dominant_emotion == emotions[(Md5Word2(img) % Len(emotions)) + 1]
    IN  DataDict(ObservationKeys, SeededEncoding(Md5Seed(img)),
                 dominant_emotion, DominantScores(dominant_emotion))

\* base64.b64decode(image_data) succeeds
Base64Ok(img) == img # "junk"

\* the result dict of the DeepFace branch of extract_facial_features
DeepFaceFeatures(img, emo) ==
    DataDict(ObservationKeys, List(TRUE, <<Md5Seed(img)>>), emo,
             [e \in EmotionLabels |-> IF e = emo THEN 900 ELSE 0])

\* process_image_base64 returned None
NoFeatures == [isDict |-> FALSE, keys |-> {}, val |-> "None"]

\* the values process_image_base64 can return for an image
process_image_base64(df, img) ==
    IF df
    THEN {NoFeatures}
         \cup (IF Base64Ok(img)
               THEN {DeepFaceFeatures(img, e) : e \in DetectedEmotions}
               ELSE {})
    ELSE {SimulatedFeatures(img)}

\* json.dumps and json.loads
JsonDumps(d) == <<"json", d>>

JsonLoads(s) == s[2]

-----------------------------------------------------------------------------
(* The database, the upload directory and the configuration *)

\* Config.FACIAL_AUTH_THRESHOLD and Config.FACIAL_EMOTION_WEIGHT
AppConfig ==
    Dict({"FACIAL_AUTH_THRESHOLD", "FACIAL_EMOTION_WEIGHT"},
         [FACIAL_AUTH_THRESHOLD |-> DefaultThreshold,
          FACIAL_EMOTION_WEIGHT |-> DefaultEmotionWeight])

\* bcrypt.hashpw and bcrypt.checkpw
hash_password(password) == <<"bcrypt", password>>

verify_password(hashed_password, password) ==
    hashed_password = hash_password(password)

\* the k-th file name generated under uploads/
UploadPath(k) == <<"upload", k>>

\* FacialData.query.filter_by(user_id=u).first()
FacialRows(u) == {i \in 1..Len(facial) : facial[i].user_id = u}

\* mutant: the relationship is never loaded
HasFacialAuth_Never(u) == FALSE

\* User.has_facial_auth: self.facial_data is not None
HasFacialAuth(u) == FacialRows(u) # {}

FirstFacialIndex(u) ==
    CHOOSE i \in FacialRows(u) : \A j \in FacialRows(u) : i <= j

\* distances the identity verifier is drawn from
Distances == {0, 500, AlternativeDistance, MaxDistance}

\* DeepFace.verify raised, or was not called
NoVerify == [raises |-> TRUE, verified |-> FALSE, distance |-> 0]

\* results of DeepFace.verify: an exception, or verified and distance
VerifyOutcomes ==
    {NoVerify} \cup [raises : {FALSE}, verified : BOOLEAN, distance : Distances]

\* the call of compare_facial_expressions gets as far as DeepFace.verify
VerifierReached(df, stored, current, fs) ==
    /\ df
    /\ stored.isDict
    /\ current.isDict
    /\ CurrentImage(stored, current, fs).go

NoResp ==
    [op |-> "none", user |-> 0, status |-> 0, token |-> FALSE,
     requiresFacial |-> FALSE, hasMatch |-> FALSE, match |-> FALSE,
     confidence |-> 0, error |-> "", extracted |-> FALSE, decided |-> FALSE,
     storedEmotion |-> "", detectedEmotion |-> "", expression |-> "",
     given |-> "", noFace |-> FALSE, verifier |-> FALSE,
     streamStatus |-> "", frameCount |-> 0]

Response(op, user, status) ==
    [NoResp EXCEPT !.op = op, !.user = user, !.status = status]

ErrorResponse(op, user, status, error, extracted) ==
    [NoResp EXCEPT !.op = op, !.user = user, !.status = status,
                   !.error = error, !.extracted = extracted]

\* mutant: a missing enrollment is answered like a rejected verification
NotEnrolled_AsRejection(op, user) ==
    [NoResp EXCEPT !.op = op, !.user = user, !.status = 200,
                   !.hasMatch = TRUE, !.match = FALSE]

\* 'No facial authentication data found', 404
NotEnrolled(op, user) ==
    ErrorResponse(op, user, 404, "No facial authentication data found", FALSE)

\* generate_token(user.id) in a response
TokenResponse(op, user, status) ==
    [NoResp EXCEPT !.op = op, !.user = user, !.status = status,
                   !.token = TRUE]

-----------------------------------------------------------------------------
(* auth_routes.py *)

register(u, password) ==
    /\ u \notin DOMAIN users
    /\ users' = [v \in DOMAIN users \cup {u} |->
                    IF v = u THEN hash_password(password) ELSE users[v]]
    /\ resp' = TokenResponse("register", u, 201)
    /\ UNCHANGED <<deepface, facial, files, nextFile, session, pwdOk, faceOk,
                   din, dout, engineVars>>

login(u, password) ==
    IF u \notin DOMAIN users \/ ~verify_password(users[u], password)
    THEN /\ resp' = [ErrorResponse("login", u, 401,
                                   "Invalid username or password", FALSE)
                        EXCEPT !.given = password]
         /\ UNCHANGED <<deepface, users, facial, files, nextFile, session,
                        pwdOk, faceOk, din, dout, engineVars>>
    ELSE IF HasFacialAuth(u)
    THEN /\ resp' = [Response("login", u, 200) EXCEPT
                        !.requiresFacial = TRUE, !.given = password]
         /\ session' = [session EXCEPT ![u] = "FacialChallengeIssued"]
         /\ pwdOk' = [pwdOk EXCEPT ![u] = TRUE]
         /\ faceOk' = [faceOk EXCEPT ![u] = FALSE]
         /\ UNCHANGED <<deepface, users, facial, files, nextFile, din, dout,
                        engineVars>>
    ELSE /\ resp' = [TokenResponse("login", u, 200) EXCEPT
                        !.given = password]
         /\ session' = [session EXCEPT ![u] = "Authenticated"]
         /\ pwdOk' = [pwdOk EXCEPT ![u] = FALSE]
         /\ faceOk' = [faceOk EXCEPT ![u] = FALSE]
         /\ UNCHANGED <<deepface, users, facial, files, nextFile, din, dout,
                        engineVars>>

facial_login(u, img) ==
    IF u \notin DOMAIN users
    THEN /\ resp' = ErrorResponse("facial_login", u, 404, "User not found",
                                  FALSE)
         /\ UNCHANGED <<deepface, users, facial, files, nextFile, session,
                        pwdOk, faceOk, din, dout, engineVars>>
    ELSE IF ~HasFacialAuth(u)
    THEN /\ resp' = ErrorResponse("facial_login", u, 404,
                                  "No facial data found for user", FALSE)
         /\ UNCHANGED <<deepface, users, facial, files, nextFile, session,
                        pwdOk, faceOk, din, dout, engineVars>>
    ELSE /\ resp' = TokenResponse("facial_login", u, 200)
         /\ session' = [session EXCEPT ![u] = "Authenticated"]
         /\ pwdOk' = [pwdOk EXCEPT ![u] = FALSE]
         /\ faceOk' = [faceOk EXCEPT ![u] = FALSE]
         /\ UNCHANGED <<deepface, users, facial, files, nextFile, din, dout,
                        engineVars>>

get_facial_auth_token(u) ==
    IF u \notin DOMAIN users
    THEN /\ resp' = ErrorResponse("get_facial_auth_token", u, 404,
                                  "User not found", FALSE)
         /\ UNCHANGED <<deepface, users, facial, files, nextFile, session,
                        pwdOk, faceOk, din, dout, engineVars>>
    ELSE /\ resp' = TokenResponse("get_facial_auth_token", u, 200)
         /\ session' = [session EXCEPT ![u] = "Authenticated"]
         /\ pwdOk' = [pwdOk EXCEPT ![u] = FALSE]
         /\ faceOk' = [faceOk EXCEPT ![u] = FALSE]
         /\ UNCHANGED <<deepface, users, facial, files, nextFile, din, dout,
                        engineVars>>

-----------------------------------------------------------------------------
(* facial_routes.py *)

\* d[k] = v on a dict
With(d, k, v) == [d EXCEPT !.keys = @ \cup {k}, !.val[k] = v]

\* override_emotion if override_emotion else detected_emotion
Truthy(s) == s # "None" /\ s # ""

\* the observation setup_facial substitutes when no face was detected
SetupFallback(seed) ==
    DataDict(ObservationKeys, SeededEncoding(seed), "happy",
             [e \in EmotionLabels |->
                 CASE e = "happy" -> 900
                   [] e = "neutral" -> 50
                   [] e = "sad" -> 10
                   [] OTHER -> 20])

\* mutant: the substituted scores keep the five fixed labels at 0.1
VerifyFallback_FixedLabels(seed, stored_emotion) ==
    DataDict(ObservationKeys, SeededEncoding(seed), stored_emotion,
             [e \in EmotionLabels |-> 100])

\* the observation verify_facial substitutes when no face was detected
VerifyFallback(seed, stored_emotion) ==
    DataDict(ObservationKeys, SeededEncoding(seed), stored_emotion,
             [e \in EmotionLabels \cup {stored_emotion} |->
                 IF e = stored_emotion THEN 900 ELSE 100])

\* a row of facial_data
FacialData(user_id, expression, facial_data, emotion_scores, image_path) ==
    [user_id |-> user_id, expression |-> expression,
     facial_data |-> facial_data, emotion_scores |-> emotion_scores,
     image_path |-> image_path]

\* stored_data = json.loads(facial_data.facial_data), with imagePath added
\* when the stored image exists
StoredData(row) ==
    LET stored_data == JsonLoads(row.facial_data)
    IN  IF row.image_path # NoPath /\ row.image_path \in files
        THEN With(stored_data, "imagePath", row.image_path)
        ELSE stored_data

\* FacialData.query.filter_by(user_id=u).first(): the index of the row, 0 for
\* None
FilterByFirst(u) == IF HasFacialAuth(u) THEN FirstFacialIndex(u) ELSE 0

\* mutant: every enrollment inserts a row
CommitFacialData_Insert(table, existing_facial_data, row) == Append(table, row)

\* the row found by the query is overwritten; with no row found, a new row is
\* added; then db.session.commit()
CommitFacialData(table, existing_facial_data, row) ==
    IF existing_facial_data # 0
    THEN [table EXCEPT ![existing_facial_data] = row]
    ELSE Append(table, row)

\* overrideEmotion of the request: absent, or a label
Overrides == {"None", "angry"}

setup_facial(u, img, override_emotion) ==
    /\ u \in DOMAIN users
    /\ nextFile < MaxFiles
    /\ \E extracted \in process_image_base64(deepface, img),
          seed \in ClockSeeds :
        LET processed_data == IF extracted = NoFeatures
                              THEN SetupFallback(seed)
                              ELSE extracted
            detected_emotion == Get(processed_data, "dominantEmotion",
                                    "neutral")
            dominant_emotion == IF Truthy(override_emotion)
                                THEN override_emotion
                                ELSE detected_emotion
            emotion_scores == Get(processed_data, "emotionScores", <<>>)
            file_path == UploadPath(nextFile + 1)
            relative_path == IF Base64Ok(img) THEN file_path ELSE NoPath
            row == FacialData(u, dominant_emotion, JsonDumps(processed_data),
                              JsonDumps(emotion_scores), relative_path)
        IN  /\ (extracted # NoFeatures => seed = 11)
            /\ files' = files \cup {file_path}
            /\ nextFile' = nextFile + 1
            /\ facial' = CommitFacialData(facial, FilterByFirst(u), row)
            /\ resp' = [Response("setup_facial", u,
                                 IF FilterByFirst(u) # 0 THEN 200 ELSE 201)
                           EXCEPT !.extracted = TRUE,
                                  !.expression = dominant_emotion]
    /\ UNCHANGED <<deepface, users, session, pwdOk, faceOk, din, dout,
                   engineVars>>

\* the 200 response of verify_facial and login_verify
VerifyResponse(op, u, r, stored_data, current_data) ==
    [Response(op, u, 200) EXCEPT
        !.hasMatch = TRUE, !.match = r.matched, !.confidence = r.confidence,
        !.extracted = TRUE, !.decided = TRUE,
        !.storedEmotion = Get(stored_data, "dominantEmotion", "None"),
        !.detectedEmotion = Get(current_data, "dominantEmotion", "None")]

\* mutant: verify_facial adds a record of the verification to the table
VerificationRecord_Added(table, row) == Append(table, row)

\* the lines that would add a verification record are comments: the table is
\* left as it was
VerificationRecord(table, row) == table

verify_facial(u, img) ==
    /\ u \in DOMAIN users
    /\ IF ~HasFacialAuth(u)
       THEN /\ resp' = NotEnrolled("verify_facial", u)
            /\ UNCHANGED <<facial, files, nextFile>>
       ELSE /\ nextFile < MaxFiles
            /\ \E extracted \in process_image_base64(deepface, img),
                  seed \in ClockSeeds, verify \in VerifyOutcomes :
                LET row == facial[FirstFacialIndex(u)]
                    current_data ==
                        IF extracted = NoFeatures
                        THEN VerifyFallback(seed,
                                 Get(JsonLoads(row.facial_data),
                                     "dominantEmotion", "happy"))
                        ELSE extracted
                    stored_data == StoredData(row)
                    file_path == UploadPath(nextFile + 1)
                    r == compare_facial_expressions(deepface, stored_data,
                             current_data, <<>>, AppConfig,
                             files \cup {file_path}, verify)
                IN  /\ (extracted # NoFeatures => seed = 11)
                    /\ (~VerifierReached(deepface, stored_data, current_data,
                                         files \cup {file_path})
                           => verify = NoVerify)
                    /\ files' = (files \cup {file_path}) \ r.unlinked
                    /\ nextFile' = nextFile + 1
                    /\ facial' = VerificationRecord(facial, row)
                    /\ resp' = [VerifyResponse("verify_facial", u, r,
                                               stored_data, current_data)
                                   EXCEPT !.noFace = (extracted = NoFeatures),
                                          !.verifier =
                                              VerifierReached(deepface,
                                                  stored_data, current_data,
                                                  files \cup {file_path})]
    /\ UNCHANGED <<deepface, users, session, pwdOk, faceOk, din, dout,
                   engineVars>>

login_verify(u, img) ==
    IF u \notin DOMAIN users
    THEN /\ resp' = ErrorResponse("login_verify", u, 404, "User not found",
                                  FALSE)
         /\ UNCHANGED <<deepface, users, facial, files, nextFile, session,
                        pwdOk, faceOk, din, dout, engineVars>>
    ELSE IF ~HasFacialAuth(u)
    THEN /\ resp' = NotEnrolled("login_verify", u)
         /\ UNCHANGED <<deepface, users, facial, files, nextFile, session,
                        pwdOk, faceOk, din, dout, engineVars>>
    ELSE \E extracted \in process_image_base64(deepface, img),
            verify \in VerifyOutcomes :
        IF extracted = NoFeatures
        THEN /\ verify = NoVerify
             /\ resp' = [ErrorResponse("login_verify", u, 400,
                             "Could not detect face in image", TRUE)
                            EXCEPT !.noFace = TRUE]
             /\ UNCHANGED <<deepface, users, facial, files, nextFile, session,
                            pwdOk, faceOk, din, dout, engineVars>>
        ELSE LET row == facial[FirstFacialIndex(u)]
                 stored_data == StoredData(row)
                 file_path == UploadPath(nextFile + 1)
                 current_data ==
                     IF Base64Ok(img)
                     THEN With(extracted, "verification_image_path", file_path)
                     ELSE With(extracted, "imageData", "invalid")
                 r == compare_facial_expressions(deepface, stored_data,
                          current_data, <<>>, AppConfig,
                          files \cup {file_path}, verify)
             IN  /\ nextFile < MaxFiles
                 /\ (~VerifierReached(deepface, stored_data, current_data,
                                      files \cup {file_path})
                        => verify = NoVerify)
                 /\ files' = (files \cup {file_path}) \ r.unlinked
                 /\ nextFile' = nextFile + 1
                 /\ resp' = [VerifyResponse("login_verify", u, r,
                                            stored_data, current_data)
                                EXCEPT !.verifier =
                                           VerifierReached(deepface,
                                               stored_data, current_data,
                                               files \cup {file_path})]
                 /\ faceOk' = [faceOk EXCEPT ![u] =
                                @ \/ (r.matched
                                      /\ session[u] = "FacialChallengeIssued")]
                 /\ UNCHANGED <<deepface, users, facial, session, pwdOk,
                                din, dout, engineVars>>

\* dbPath of the request: absent, a directory, a path that is no directory
DbPaths == {"None", "dir", "nodir"}

\* a response of stream_analyze
StreamResponse(user, status, streamStatus, frameCount) ==
    [Response("stream_analyze", user, status) EXCEPT
        !.streamStatus = streamStatus, !.frameCount = frameCount]

\* the handler keeps nothing between frames: frame_count is part of the
\* request; the matches of a directory scan are not kept in resp
stream_analyze(u, img, db_path, frame_count) ==
    /\ u \in DOMAIN users
    /\ \E extracted \in process_image_base64(deepface, img) :
        LET has_face == extracted # NoFeatures
            selfMatch == /\ frame_count >= FramesRequired
                         /\ has_face
                         /\ db_path = "None"
                         /\ HasFacialAuth(u)
            stored_data == JsonLoads(facial[FirstFacialIndex(u)].facial_data)
            reached == selfMatch /\ VerifierReached(deepface, stored_data,
                                                    extracted, files)
        IN  \E verify \in IF reached THEN VerifyOutcomes ELSE {NoVerify} :
            LET r == compare_facial_expressions(deepface, stored_data,
                         extracted, <<>>, AppConfig, files, verify)
            IN
            /\ resp' =
                 IF frame_count < FramesRequired
                 THEN [StreamResponse(u, 200, "accumulating",
                           frame_count + (IF has_face THEN 1 ELSE 0))
                          EXCEPT !.noFace = ~has_face]
                 ELSE IF ~has_face
                 THEN [StreamResponse(u, 200, "error", 0)
                          EXCEPT !.noFace = TRUE]
                 ELSE IF db_path = "nodir"
                 THEN StreamResponse(u, 400, "error", frame_count)
                 ELSE IF selfMatch
                 THEN [StreamResponse(u, 200, "analyzed", frame_count + 1)
                          EXCEPT !.hasMatch = TRUE, !.match = r.matched,
                                 !.confidence = r.confidence,
                                 !.extracted = TRUE, !.decided = TRUE,
                                 !.verifier = reached]
                 ELSE [StreamResponse(u, 200, "analyzed", frame_count + 1)
                          EXCEPT !.extracted = TRUE]
            /\ files' = IF selfMatch THEN files \ r.unlinked ELSE files
    /\ UNCHANGED <<deepface, users, facial, nextFile, session, pwdOk, faceOk,
                   din, dout, rng, threads, first, last, enrollments>>

\* the client sends a frame with the frameCount of the last response and
\* keeps the frameCount of this one
SendFrame(u, img, db_path) ==
    /\ stream.count < MaxFrames
    /\ stream_analyze(u, img, db_path, stream.count)
    /\ stream' = [count |-> resp'.frameCount,
                  streak |-> IF resp'.noFace
                             THEN 0
                             ELSE Min(stream.streak + 1, MaxFrames)]

\* GET /status: hasFacialAuth and the expression of the record, or None
get_facial_status(u) ==
    /\ u \in DOMAIN users
    /\ resp' = [Response("get_facial_status", u, 200) EXCEPT
                   !.expression = IF HasFacialAuth(u)
                                  THEN facial[FirstFacialIndex(u)].expression
                                  ELSE "None"]
    /\ UNCHANGED <<deepface, users, facial, files, nextFile, session, pwdOk,
                   faceOk, din, dout, engineVars>>

\* GET /detailed-data
get_detailed_facial_data(u) ==
    /\ u \in DOMAIN users
    /\ resp' = IF ~HasFacialAuth(u)
               THEN NotEnrolled("get_detailed_facial_data", u)
               ELSE [Response("get_detailed_facial_data", u, 200) EXCEPT
                        !.expression =
                            facial[FirstFacialIndex(u)].expression]
    /\ UNCHANGED <<deepface, users, facial, files, nextFile, session, pwdOk,
                   faceOk, din, dout, engineVars>>

-----------------------------------------------------------------------------
(* The protocol: any sequence of requests *)

NoCall == [called |-> FALSE]

\* the generator before anything seeded it or drew from it
NoRng == [seed |-> 0, pos |-> 0]

\* a client that has sent no frame
NoStream == [count |-> 0, streak |-> 0]

\* no engine function is running on behalf of a thread
EngineIdle ==
    /\ rng = NoRng
    /\ threads = <<>>
    /\ first = <<>>
    /\ last = NoCall
    /\ enrollments = {}
    /\ stream = NoStream

Init ==
    /\ EngineIdle
    /\ deepface \in BOOLEAN
    /\ users = <<>>
    /\ facial = <<>>
    /\ files = {}
    /\ nextFile = 0
    /\ session = [u \in UserIds |-> "PasswordPending"]
    /\ pwdOk = [u \in UserIds |-> FALSE]
    /\ faceOk = [u \in UserIds |-> FALSE]
    /\ resp = NoResp
    /\ din = NoCall
    /\ dout = NoCall

Next ==
    \/ \E u \in UserIds, password \in RegisterPasswords :
          register(u, password)
    \/ \E u \in UserIds, password \in Passwords : login(u, password)
    \/ \E u \in UserIds, img \in Images : facial_login(u, img)
    \/ \E u \in UserIds : get_facial_auth_token(u)
    \/ \E u \in UserIds, img \in Images, o \in Overrides :
          setup_facial(u, img, o)
    \/ \E u \in UserIds, img \in Images : verify_facial(u, img)
    \/ \E u \in UserIds, img \in Images : login_verify(u, img)

Spec == Init /\ [][Next]_vars

\* the requests that read or write the facial_data table and the upload
\* directory, in any order; the other requests leave both unchanged
NextFacial ==
    \/ \E u \in UserIds, password \in RegisterPasswords :
          register(u, password)
    \/ \E u \in UserIds, img \in Images, o \in Overrides :
          setup_facial(u, img, o)
    \/ \E u \in UserIds, img \in Images : verify_facial(u, img)
    \/ \E u \in UserIds, img \in Images : login_verify(u, img)

SpecFacial == Init /\ [][NextFacial]_vars

\* the requests of facial_routes.py that use the table, in any order, after
\* register
NextRoutes ==
    \/ NextFacial
    \/ \E u \in UserIds, img \in Images, db_path \in DbPaths,
          frame_count \in FrameCounts :
          stream_analyze(u, img, db_path, frame_count) /\ UNCHANGED stream
    \/ \E u \in UserIds : get_facial_status(u)
    \/ \E u \in UserIds : get_detailed_facial_data(u)

SpecRoutes == Init /\ [][NextRoutes]_vars

\* one client that streams frames to the server, and enrollments
NextStream ==
    \/ \E u \in UserIds, password \in RegisterPasswords :
          register(u, password)
    \/ \E u \in UserIds, img \in Images, o \in Overrides :
          setup_facial(u, img, o)
    \/ \E u \in UserIds, img \in Images, db_path \in DbPaths :
          SendFrame(u, img, db_path)

SpecStream == Init /\ [][NextStream]_vars

-----------------------------------------------------------------------------
(* The decision function on its own: one call on arguments drawn from      *)
(* bounded sets                                                            *)

\* a vector of n equal coordinates
ConstantEncoding(n, v) == List(TRUE, [i \in 1..n |-> v])

\* encodings: empty, 128 coordinates at 0.0, 0.5, 1.0 and 2.0, 64 coordinates
\* at 0.5, and a list that holds a string
EncodingSamples ==
    {EmptyList,
     ConstantEncoding(EncodingDim, 0),
     ConstantEncoding(EncodingDim, Scale \div 2),
     ConstantEncoding(EncodingDim, Scale),
     ConstantEncoding(EncodingDim, 2 * Scale),
     ConstantEncoding(EncodingDim \div 2, Scale \div 2),
     List(FALSE, <<0>>)}

RefPath == <<"ref">>

ProbePath == <<"probe">>

NotADict == NoFeatures

\* stored_data and current_data of the simulated branch
SimulatedDicts ==
    {NotADict}
    \cup {DataDict(ks, enc, emo, DominantScores(emo)) :
            ks \in SUBSET {"faceEncoding", "dominantEmotion"},
            enc \in EncodingSamples, emo \in DetectedEmotions}

\* stored_data of the identity-verify branch
StoredDicts ==
    {NotADict}
    \cup {With(DataDict(ks, EmptyList, emo, DominantScores(emo)),
               "imagePath", RefPath) :
            ks \in SUBSET {"dominantEmotion"}, emo \in DetectedEmotions}
    \cup {DataDict(ks, EmptyList, emo, DominantScores(emo)) :
            ks \in SUBSET {"dominantEmotion"}, emo \in DetectedEmotions}

\* the ways current_data names the probe image
ProbeSources(d) ==
    {d,
     With(d, "verification_image_path", ProbePath),
     With(d, "image_array", "ndarray"),
     With(d, "imagePath", ProbePath),
     With(d, "imageData", "valid"),
     With(d, "imageData", "invalid")}

\* current_data of the identity-verify branch
CurrentDicts ==
    {NotADict}
    \cup UNION {ProbeSources([DataDict(ks, EmptyList, emo, DominantScores(emo))
                                EXCEPT !.val = [image_array |-> "None"] @@ @]) :
                  ks \in SUBSET {"dominantEmotion"}, emo \in DetectedEmotions}

\* app.config with either option present or absent
Configs ==
    {Dict(ks, [FACIAL_AUTH_THRESHOLD |-> t, FACIAL_EMOTION_WEIGHT |-> w]) :
        ks \in SUBSET {"FACIAL_AUTH_THRESHOLD", "FACIAL_EMOTION_WEIGHT"},
        t \in {DefaultThreshold},
        w \in {0, Scale \div 5, Scale}}

ThresholdArgs == {<<>>, <<DefaultThreshold>>, <<Scale - Scale \div 10>>}

DecideInputs ==
    [deepface : {FALSE}, stored : SimulatedDicts, current : SimulatedDicts,
     threshold : ThresholdArgs, config : Configs, fs : {{}},
     verify : {NoVerify}]
    \cup
    [deepface : {TRUE}, stored : StoredDicts, current : CurrentDicts,
     threshold : ThresholdArgs, config : {AppConfig},
     fs : SUBSET {RefPath, ProbePath}, verify : VerifyOutcomes]

InitDecide ==
    /\ din \in DecideInputs
    /\ deepface = din.deepface
    /\ dout = NoCall
    /\ users = <<>>
    /\ facial = <<>>
    /\ files = {}
    /\ nextFile = 0
    /\ session = [u \in UserIds |-> "PasswordPending"]
    /\ pwdOk = [u \in UserIds |-> FALSE]
    /\ faceOk = [u \in UserIds |-> FALSE]
    /\ resp = NoResp
    /\ EngineIdle

Decide ==
    /\ dout = NoCall
    /\ dout' = [called |-> TRUE,
                r |-> compare_facial_expressions(din.deepface, din.stored,
                          din.current, din.threshold, din.config, din.fs,
                          din.verify)]
    /\ UNCHANGED <<deepface, din>>
    /\ UNCHANGED protoVars
    /\ UNCHANGED engineVars

NextDecide == Decide

SpecDecide == InitDecide /\ [][NextDecide]_vars

-----------------------------------------------------------------------------
(* Properties of the decision function, checked under SpecDecide *)

\* the call has returned or raised
Decided == dout # NoCall

BothDicts == din.stored.isDict /\ din.current.isDict

\* stored and probe dominant expressions are equal
SameExpression ==
    /\ BothDicts
    /\ (IF "dominantEmotion" \in din.stored.keys
        THEN din.stored.val.dominantEmotion ELSE "unknown")
       = (IF "dominantEmotion" \in din.current.keys
          THEN din.current.val.dominantEmotion ELSE "unknown")

\* the identity verifier ran and reported a result
VerifierReported ==
    /\ din.deepface
    /\ BothDicts
    /\ CurrentImage(din.stored, din.current, din.fs).go
    /\ ~din.verify.raises

\* the simulated branch got past its guards to the weighted combination
BlendedPath ==
    /\ ~din.deepface
    /\ BothDicts
    /\ "faceEncoding" \in din.stored.keys
    /\ "faceEncoding" \in din.current.keys
    /\ din.stored.val.faceEncoding.elems # <<>>
    /\ din.current.val.faceEncoding.elems # <<>>
    /\ din.stored.val.faceEncoding.numeric
    /\ din.current.val.faceEncoding.numeric

\* the threshold and the weight in force for the call
DinThreshold ==
    IF din.threshold # <<>> THEN din.threshold[1]
    ELSE IF "FACIAL_AUTH_THRESHOLD" \in din.config.keys
    THEN din.config.val.FACIAL_AUTH_THRESHOLD
    ELSE 600

DinWeight ==
    IF "FACIAL_EMOTION_WEIGHT" \in din.config.keys
    THEN din.config.val.FACIAL_EMOTION_WEIGHT
    ELSE 300

\* max(0, 1 - sum |a_i - b_i| / 128) of the two encodings of the call
DinSimilarity ==
    EncodingSimilarity(din.stored.val.faceEncoding.elems,
                       din.current.val.faceEncoding.elems)

\* C4: on the identity-verified path (the verifier reports verified=true), if
\* the stored and probe dominant expressions differ the result is
\* matched=false with confidence 0.0, whatever the distance.
C4_ExpressionVeto ==
    (Decided /\ VerifierReported /\ din.verify.verified /\ ~SameExpression)
        => (dout.r.kind = "return" /\ ~dout.r.matched
            /\ dout.r.confidence = 0)

\* a verified face at distance 0 with a different expression was decided
C4_Witness ==
    /\ Decided
    /\ VerifierReported
    /\ din.verify.verified
    /\ din.verify.distance = 0
    /\ ~SameExpression
    /\ ~dout.r.matched

\* C5 as stated: in every decision path, matched=true implies that the stored
\* and probe dominant expressions are equal.
C5_ExpressionRequiredEverywhere ==
    (Decided /\ dout.r.matched) => SameExpression

\* C5 amended: matched=true implies equal expressions on the identity-verify
\* paths (both-pass and fallback); on the blended path a pair with unequal
\* expressions is matched exactly when (1 - weight) * similarity alone
\* reaches the threshold.
C5_ExpressionRequiredWithVerifier ==
    /\ (Decided /\ din.deepface /\ dout.r.matched) => SameExpression
    /\ (Decided /\ BlendedPath /\ ~SameExpression)
          => (dout.r.matched
              <=> (Scale - DinWeight) * DinSimilarity >= DinThreshold * Scale)

\* the fallback path (face not verified) accepted a pair with equal
\* expressions
C5_Witness ==
    /\ Decided
    /\ VerifierReported
    /\ ~din.verify.verified
    /\ SameExpression
    /\ dout.r.matched

\* C6 as stated: in every decision path a matched result has confidence at
\* least the threshold in force.
C6_MatchedMeetsThreshold ==
    (Decided /\ dout.r.matched) => dout.r.confidence >= DinThreshold * Scale

\* C7: on the blended path confidence = (1 - w) * similarity + w * (1 if the
\* expressions are equal else 0) and matched holds exactly when confidence
\* >= threshold, the boundary included.
C7_BlendedFormula ==
    (Decided /\ BlendedPath) =>
        /\ dout.r.kind = "return"
        /\ dout.r.confidence
             = (Scale - DinWeight) * DinSimilarity
               + DinWeight * (IF SameExpression THEN Scale ELSE 0)
        /\ dout.r.matched <=> dout.r.confidence >= DinThreshold * Scale

\* a blended confidence exactly at the threshold was classified as matched
C7_Witness ==
    /\ Decided
    /\ BlendedPath
    /\ dout.r.confidence = DinThreshold * Scale
    /\ dout.r.matched

InternalFailure ==
    \/ ~BothDicts
    \/ (din.deepface /\ CurrentImage(din.stored, din.current, din.fs).go
        /\ din.verify.raises)
    \/ (din.deepface /\ ~CurrentImage(din.stored, din.current, din.fs).go)
    \/ (~din.deepface
        /\ "faceEncoding" \in din.stored.keys
        /\ "faceEncoding" \in din.current.keys
        /\ din.stored.val.faceEncoding.elems # <<>>
        /\ din.current.val.faceEncoding.elems # <<>>
        /\ ~(din.stored.val.faceEncoding.numeric
             /\ din.current.val.faceEncoding.numeric))

\* C9: no error propagates to the caller: every call returns a pair, and any
\* internal failure yields exactly (false, 0.0).
C9_NoErrorPropagates ==
    Decided =>
        /\ dout.r.kind = "return"
        /\ InternalFailure => (~dout.r.matched /\ dout.r.confidence = 0)

\* a call on an argument that is not a dict was answered with (false, 0.0)
C9_Witness ==
    /\ Decided
    /\ ~din.stored.isDict
    /\ dout.r.kind = "return"

-----------------------------------------------------------------------------
(* Properties of the login protocol, checked under Spec *)

\* the facial_data table holds a row of user u
Enrolled(u) == \E i \in 1..Len(facial) : facial[i].user_id = u

\* C1: a login session of an enrolled user moves from FacialChallengeIssued
\* to Authenticated (a token is issued) only after a verification of that
\* user returned matched=true in the session.
C1_TokenOnlyAfterMatch ==
    [][\A u \in UserIds :
          (Enrolled(u) /\ session[u] = "FacialChallengeIssued"
           /\ session'[u] = "Authenticated") => faceOk[u]]_vars

\* C2: outside register, a token is issued for user u only if the password of
\* u was verified earlier in the session (or, at login, by the request that
\* issues it).
C2_TokenOnlyAfterPassword ==
    [][(resp'.token /\ resp'.op # "register")
       => \/ pwdOk[resp'.user]
          \/ (resp'.op = "login"
              /\ users[resp'.user] = <<"bcrypt", resp'.given>>)]_vars

\* C3: login with a correct password answers requiresFacial=true without a
\* token exactly when the user has an enrollment record, and otherwise
\* issues a token with requiresFacial=false; a wrong password or an unknown
\* user gets no token.
C3_LoginBranches ==
    resp.op = "login" =>
        LET u == resp.user
            passwordOk == u \in DOMAIN users
                          /\ users[u] = <<"bcrypt", resp.given>>
        IN  /\ passwordOk <=> resp.status = 200
            /\ passwordOk =>
                 /\ resp.requiresFacial <=> Enrolled(u)
                 /\ resp.token <=> ~Enrolled(u)
                 /\ session[u] = (IF Enrolled(u)
                                  THEN "FacialChallengeIssued"
                                  ELSE "Authenticated")
            /\ ~passwordOk =>
                 (resp.status = 401 /\ ~resp.token /\ ~resp.requiresFacial)

\* an enrolled user logged in with the right password and was challenged
C3_Witness ==
    /\ resp.op = "login"
    /\ resp.status = 200
    /\ Enrolled(resp.user)
    /\ resp.requiresFacial
    /\ session[resp.user] = "FacialChallengeIssued"

\* C10: verify_facial and login_verify for a user without an enrollment
\* record answer 404 'No facial authentication data found', which no
\* matched=false rejection carries, without extracting or deciding and
\* without writing a row or a file.
C10_NotEnrolledIsDistinct ==
    [][(resp'.op \in {"verify_facial", "login_verify"}
        /\ resp'.user \in DOMAIN users
        /\ ~Enrolled(resp'.user))
       => /\ resp'.status = 404
          /\ resp'.error = "No facial authentication data found"
          /\ ~resp'.hasMatch
          /\ ~resp'.extracted
          /\ ~resp'.decided
          /\ facial' = facial
          /\ files' = files]_vars

\* a registered user without a record asked for a login-time verification
C10_Witness ==
    /\ resp.op = "login_verify"
    /\ resp.user \in DOMAIN users
    /\ ~Enrolled(resp.user)
    /\ resp.status = 404

-----------------------------------------------------------------------------
(* Enrollment *)

\* the rows of a facial_data table that belong to user u
RowsOf(table, u) == {i \in 1..Len(table) : table[i].user_id = u}

\* the observations an enrollment request with image img can store
EnrollObservations(img) ==
    (process_image_base64(deepface, img) \ {NoFeatures})
        \cup (IF NoFeatures \in process_image_base64(deepface, img)
              THEN {SetupFallback(seed) : seed \in ClockSeeds}
              ELSE {})

\* C11: after every successful setup_facial request of user u, in any sequence
\* of requests, the table holds exactly one row of u, and its expression,
\* observation, scores and image path are those of that request.
C11_ReEnrollReplacesInPlace ==
    [][resp'.op = "setup_facial"
       => \A img \in Images, o \in Overrides :
             LET u == resp'.user
             IN  setup_facial(u, img, o)
                 => /\ Cardinality(RowsOf(facial', u)) = 1
                    /\ \A i \in RowsOf(facial', u) :
                          LET row == facial'[i]
                              observation == JsonLoads(row.facial_data)
                          IN  /\ observation \in EnrollObservations(img)
                              /\ row.expression =
                                    IF Truthy(o)
                                    THEN o
                                    ELSE Get(observation, "dominantEmotion",
                                             "neutral")
                              /\ row.expression = resp'.expression
                              /\ row.emotion_scores =
                                    JsonDumps(Get(observation,
                                                  "emotionScores", <<>>))
                              /\ row.image_path = IF Base64Ok(img)
                                                  THEN UploadPath(nextFile')
                                                  ELSE NoPath
                              /\ row.image_path \in files' \cup {NoPath}]_vars

\* a second enrollment of the same user was answered with 200 and changed
\* the expression of the row
C11_Witness ==
    /\ resp.op = "setup_facial"
    /\ resp.status = 200
    /\ nextFile >= 2
    /\ Cardinality(RowsOf(facial, resp.user)) = 1
    /\ \A i \in RowsOf(facial, resp.user) : facial[i].expression = "angry"

-----------------------------------------------------------------------------
(* The engine functions and the module-level random generator *)

\* inputs of the extractor: a request image (str), a bytes object, a str
\* that holds a lone surrogate, and a value that is neither bytes nor str
EngineInputs == {"imgA", "bytes", "surrogate", "array"}

IsBytes(image_data) == image_data = "bytes"

IsStr(image_data) == image_data \in Images \cup {"surrogate"}

\* image_data.encode('utf-8') raises UnicodeEncodeError
EncodeRaises(image_data) == image_data = "surrogate"

\* the first two words of the MD5 digest the extractor computes: of the
\* bytes, of the encoded str, or of str(time.time())
ImageHash(image_data, clock) ==
    IF IsBytes(image_data) \/ (IsStr(image_data) /\ ~EncodeRaises(image_data))
    THEN [raises |-> FALSE, seed |-> Md5Seed(image_data),
          word |-> Md5Word2(image_data)]
    ELSE IF IsStr(image_data)
    THEN [raises |-> TRUE, seed |-> 0, word |-> 0]
    ELSE [raises |-> FALSE, seed |-> clock, word |-> clock * 3]

\* mutant: the generator keeps its state when it is seeded
RandomSeed_Ignored(r, seed) == r

\* random.seed(seed)
RandomSeed(r, seed) == [seed |-> seed, pos |-> 0]

\* [random.uniform(-0.5, 0.5) for _ in range(n)] on generator state r
Draw(r, n) == List(TRUE, [i \in 1..n |-> Uniform(r.seed, r.pos + i)])

\* the generator after n draws
Advance(r, n) == [r EXCEPT !.pos = @ + n]

\* draws taken for the landmarks: two per point of the five features
LandmarkDraws == 2 * (6 + 6 + 9 + 20 + 17)

\* mutant: an error in the simulation is answered with None
ExtractExcept_None(r) == [result |-> NoFeatures, rng |-> r]

\* the except branch of the simulated extractor
ExtractExcept(r) ==
    [result |-> DataDict(ObservationKeys, Draw(r, EncodingDim), "happy",
                         [e \in EmotionLabels |->
                             CASE e = "happy" -> 900
                               [] e = "neutral" -> 50
                               [] e = "sad" -> 10
                               [] OTHER -> 20]),
     rng |-> Advance(r, EncodingDim)]

\* the simulated branch of extract_facial_features on any input: the
\* observation it returns and the generator state it leaves
extract_facial_features(image_data, r, clock) ==
    LET h == ImageHash(image_data, clock)
        seeded == RandomSeed(r, h.seed)
        dominant_emotion == emotions[(h.word % Len(emotions)) + 1]
    IN  IF h.raises
        THEN ExtractExcept(r)
        ELSE [result |-> DataDict(ObservationKeys, Draw(seeded, EncodingDim),
                                  dominant_emotion,
                                  DominantScores(dominant_emotion)),
              rng |-> Advance(seeded, EncodingDim + LandmarkDraws)]

\* rows a directory scan can return, and thresholds of a scan
MaxRows == 2

\* VGG-Face_cosine of the rows of DeepFace.find
Cosines == {0, 400, 500}

FindThresholds == {0, DefaultThreshold, 900}

\* sequences of at most n rows, in the order DeepFace.find returns them:
\* by ascending distance
RECURSIVE RowSeqs(_)
RowSeqs(n) ==
    IF n = 0
    THEN {<<>>}
    ELSE RowSeqs(n - 1)
         \cup {Append(rows, [identity |-> n, cosine |-> c]) :
                  rows \in {q \in RowSeqs(n - 1) : Len(q) = n - 1},
                  c \in Cosines}

\* DeepFace.find raised
FindRaises == [raises |-> TRUE, rows |-> <<>>]

\* outcomes of DeepFace.find
FindOutcomes ==
    {FindRaises}
    \cup {[raises |-> FALSE, rows |-> rows] :
             rows \in {q \in RowSeqs(MaxRows) :
                          \A i \in 1..(Len(q) - 1) :
                              q[i].cosine <= q[i + 1].cosine}}

\* the DeepFace branch of find_matches_in_directory
DeepFaceMatches(found, similarity_threshold) ==
    IF found.raises
    THEN <<>>
    ELSE LET kept == SelectSeq(found.rows,
                         LAMBDA row :
                             Scale - row.cosine >= similarity_threshold)
         IN  [i \in 1..Len(kept) |->
                 [identity |-> kept[i].identity,
                  confidence |-> Scale - kept[i].cosine]]

\* values of datetime.now().strftime("%Y%m%d")
Dates == {20261101, 20261102, 20261103, 20261104}

\* what the generator yields after random.seed(date): randint(0, 2) entries
\* of randint(1, 10) and uniform(0.65, 0.95), as CPython computes them
DateMatches(date) ==
    CASE date = 20261101 -> <<>>
      [] date = 20261102 -> <<[identity |-> 9, confidence |-> 731],
                              [identity |-> 5, confidence |-> 808]>>
      [] date = 20261103 -> <<[identity |-> 4, confidence |-> 916],
                              [identity |-> 9, confidence |-> 786]>>
      [] OTHER -> <<[identity |-> 5, confidence |-> 892]>>

\* find_matches_in_directory: the list it returns and the generator state it
\* leaves
find_matches_in_directory(df, r, found, date, similarity_threshold) ==
    IF df
    THEN [result |-> DeepFaceMatches(found, similarity_threshold), rng |-> r]
    ELSE [result |-> DateMatches(date),
          rng |-> Advance(RandomSeed(r, date),
                          1 + 2 * Len(DateMatches(date)))]

-----------------------------------------------------------------------------
(* The engine functions called one after another *)

\* draws after the last seeding that a behaviour follows
MaxDraws == 500

\* no request was made of the routes
NoRequests ==
    /\ users = <<>>
    /\ facial = <<>>
    /\ files = {}
    /\ nextFile = 0
    /\ session = [u \in UserIds |-> "PasswordPending"]
    /\ pwdOk = [u \in UserIds |-> FALSE]
    /\ faceOk = [u \in UserIds |-> FALSE]
    /\ resp = NoResp
    /\ din = NoCall
    /\ dout = NoCall

InitEngine ==
    /\ deepface \in BOOLEAN
    /\ rng \in {[seed |-> s, pos |-> 0] : s \in ClockSeeds}
    /\ threads = <<>>
    /\ first = [x \in EngineInputs |-> NoFeatures]
    /\ last = NoCall
    /\ enrollments = {}
    /\ stream = NoStream
    /\ NoRequests

Extract(image_data, clock) ==
    /\ ~deepface
    /\ LET e == extract_facial_features(image_data, rng, clock)
       IN  /\ e.rng.pos <= MaxDraws
           /\ rng' = e.rng
           /\ first' = IF first[image_data] = NoFeatures
                       THEN [first EXCEPT ![image_data] = e.result]
                       ELSE first
           /\ last' = [called |-> TRUE, fn |-> "extract_facial_features",
                       input |-> image_data, result |-> e.result,
                       repeat |-> first[image_data] # NoFeatures]
    /\ UNCHANGED <<deepface, threads, din, dout, enrollments, stream>>
    /\ UNCHANGED protoVars

FindMatches(found, date, similarity_threshold) ==
    /\ (deepface => date = 20261101)
    /\ (~deepface => found = FindRaises)
    /\ LET f == find_matches_in_directory(deepface, rng, found, date,
                                          similarity_threshold)
       IN  /\ f.rng.pos <= MaxDraws
           /\ rng' = f.rng
           /\ last' = [called |-> TRUE, fn |-> "find_matches_in_directory",
                       threshold |-> similarity_threshold,
                       rows |-> found.rows, result |-> f.result]
    /\ UNCHANGED <<deepface, threads, first, din, dout, enrollments, stream>>
    /\ UNCHANGED protoVars

\* dominantEmotion of a stored observation: the labels of the simulated
\* extractor and two that only the real analyser reports
StoredLabels == EmotionLabels \cup {"fear", "surprise"}

\* setup_facial found no face: it seeds the generator with the clock and
\* builds the observation it stores
setup_facial_fallback(seed) ==
    /\ deepface
    /\ rng' = Advance(RandomSeed(rng, seed), EncodingDim)
    /\ last' = [called |-> TRUE, fn |-> "setup_facial",
                result |-> SetupFallback(seed)]
    /\ UNCHANGED <<deepface, threads, first, din, dout, enrollments, stream>>
    /\ UNCHANGED protoVars

\* verify_facial found no face: it seeds the generator with the clock and
\* builds a probe with the stored dominant expression
verify_facial_fallback(seed, stored_emotion) ==
    /\ deepface
    /\ rng' = Advance(RandomSeed(rng, seed), EncodingDim)
    /\ last' = [called |-> TRUE, fn |-> "verify_facial",
                stored |-> stored_emotion,
                result |-> VerifyFallback(seed, stored_emotion)]
    /\ UNCHANGED <<deepface, threads, first, din, dout, enrollments, stream>>
    /\ UNCHANGED protoVars

NextEngine ==
    \/ \E image_data \in EngineInputs, clock \in ClockSeeds :
          Extract(image_data, clock)
    \/ \E seed \in ClockSeeds : setup_facial_fallback(seed)
    \/ \E seed \in ClockSeeds, stored_emotion \in StoredLabels :
          verify_facial_fallback(seed, stored_emotion)
    \/ \E found \in FindOutcomes, date \in Dates,
          similarity_threshold \in FindThresholds :
          FindMatches(found, date, similarity_threshold)

SpecEngine == InitEngine /\ [][NextEngine]_vars

-----------------------------------------------------------------------------
(* The simulated extractor *)

\* the last engine call was the simulated extractor
Extracted == last.called /\ last.fn = "extract_facial_features"

\* the hash of the input is a hash of its content
ContentHashed(image_data) ==
    IsBytes(image_data) \/ (IsStr(image_data) /\ ~EncodeRaises(image_data))

\* C14: in simulated mode the extractor returns, for every input, a dict with
\* an embedding of 128 numbers, a dominant expression and a score for it; it
\* never returns None.
C14_SimulatedExtractorAlwaysSucceeds ==
    Extracted
    => /\ last.result # NoFeatures
       /\ last.result.isDict
       /\ ObservationKeys \subseteq last.result.keys
       /\ last.result.val.faceEncoding.numeric
       /\ DOMAIN last.result.val.faceEncoding.elems = 1..EncodingDim
       /\ last.result.val.dominantEmotion \in EmotionLabels
       /\ last.result.val.dominantEmotion
             \in DOMAIN last.result.val.emotionScores

\* the extractor answered an input whose hashing raised
C14_Witness ==
    /\ Extracted
    /\ EncodeRaises(last.input)
    /\ last.result.isDict
    /\ last.result.val.dominantEmotion = "happy"

\* the last call repeated an input and returned what the first call returned
SameAsFirst ==
    /\ last.result.val.faceEncoding = first[last.input].val.faceEncoding
    /\ last.result.val.dominantEmotion
          = first[last.input].val.dominantEmotion

\* C15 as stated: two calls of the simulated extractor on the same input
\* return the same embedding and the same dominant expression, whatever ran
\* before or between them.
C15_DeterministicOnEveryInput ==
    (Extracted /\ last.repeat) => SameAsFirst

\* C15 amended: two calls of the simulated extractor on the same bytes, or on
\* the same str that UTF-8 can encode, return the same embedding and the same
\* dominant expression, whatever ran before or between them.
C15_DeterministicOnHashedContent ==
    (Extracted /\ last.repeat /\ ContentHashed(last.input)) => SameAsFirst

\* a str was extracted a second time after the generator had been seeded by
\* another input and drawn from by the except branch
C15_Witness ==
    /\ Extracted
    /\ last.repeat
    /\ last.input = "imgA"
    /\ first["bytes"] # NoFeatures
    /\ first["surrogate"] # NoFeatures
    /\ SameAsFirst

-----------------------------------------------------------------------------
(* The expression scores of the observations the system makes up *)

\* the last call made an observation: the simulated extractor, or one of the
\* two substitutions of the routes
Observed ==
    /\ last.called
    /\ last.fn \in {"extract_facial_features", "setup_facial", "verify_facial"}

\* the weights of the labels other than the dominant one
Residuals(d) ==
    {d.val.emotionScores[e] :
        e \in DOMAIN d.val.emotionScores \ {d.val.dominantEmotion}}

\* C25: every observation made by the simulated extractor, by its except
\* branch, by the substitution of setup_facial and by that of verify_facial
\* (for any stored label) has a non-empty score map in which the dominant
\* expression is a key of maximal value; from the main path of the simulated
\* extractor the dominant label weighs 0.9 and all others one equal smaller
\* weight.
C25_DominantIsMaximalKey ==
    Observed
    => LET d == last.result
           scores == d.val.emotionScores
       IN  /\ "emotionScores" \in d.keys
           /\ "dominantEmotion" \in d.keys
           /\ DOMAIN scores # {}
           /\ d.val.dominantEmotion \in DOMAIN scores
           /\ \A e \in DOMAIN scores :
                 scores[e] <= scores[d.val.dominantEmotion]
           /\ (Extracted /\ ~ImageHash(last.input, 0).raises)
                 => /\ scores[d.val.dominantEmotion] = 900
                    /\ Cardinality(Residuals(d)) = 1
                    /\ \A w \in Residuals(d) : w < 900

\* verify_facial substituted a probe for a stored label that the five fixed
\* labels do not include
C25_Witness ==
    /\ Observed
    /\ last.fn = "verify_facial"
    /\ last.stored = "fear"
    /\ last.result.val.dominantEmotion = "fear"
    /\ last.result.val.emotionScores["fear"] = 900

-----------------------------------------------------------------------------
(* Directory matching *)

Found == last.called /\ last.fn = "find_matches_in_directory"

\* C18: every entry find_matches_in_directory returns has a confidence of at
\* least similarity_threshold, and every row whose similarity is at least
\* similarity_threshold is returned.
C18_FindMatchesThreshold ==
    Found
    => /\ \A i \in 1..Len(last.result) :
             last.result[i].confidence >= last.threshold
       /\ \A j \in 1..Len(last.rows) :
             Scale - last.rows[j].cosine >= last.threshold
             => \E i \in 1..Len(last.result) :
                   /\ last.result[i].identity = last.rows[j].identity
                   /\ last.result[i].confidence
                         = Scale - last.rows[j].cosine

\* C19: the list find_matches_in_directory returns is in order of
\* non-increasing confidence.
C19_FindMatchesOrdered ==
    Found
    => \A i \in 1..(Len(last.result) - 1) :
          last.result[i].confidence >= last.result[i + 1].confidence

-----------------------------------------------------------------------------
(* Enrollment requests served by concurrent threads, in simulated mode: the  *)
(* steps of setup_facial between which another thread can run                *)

MaxThreads == 2

ThreadIds == 1..MaxThreads

\* a thread that serves no request
IdleThread ==
    [pc |-> "idle", user |-> 0, img |-> "", override |-> "None",
     data |-> NoFeatures, path |-> NoPath, existing |-> 0, row |-> <<>>,
     stored |-> NoFeatures]

InitThreads ==
    /\ deepface = FALSE
    /\ users = [u \in UserIds |-> hash_password("pw1")]
    /\ facial = <<>>
    /\ files = {}
    /\ nextFile = 0
    /\ session = [u \in UserIds |-> "PasswordPending"]
    /\ pwdOk = [u \in UserIds |-> FALSE]
    /\ faceOk = [u \in UserIds |-> FALSE]
    /\ resp = NoResp
    /\ din = NoCall
    /\ dout = NoCall
    /\ rng \in {[seed |-> s, pos |-> 0] : s \in ClockSeeds}
    /\ threads = [t \in ThreadIds |-> IdleThread]
    /\ first = <<>>
    /\ last = NoCall
    /\ enrollments = {}
    /\ stream = NoStream

\* the request arrives and the extractor hashes the image and seeds the
\* generator
ThreadSeed(t, u, img, override_emotion) ==
    /\ threads[t].pc = "idle"
    /\ u \in DOMAIN users
    /\ nextFile < MaxFiles
    /\ nextFile' = nextFile + 1
    /\ rng' = RandomSeed(rng, ImageHash(img, 0).seed)
    /\ threads' = [threads EXCEPT ![t] =
                      [IdleThread EXCEPT !.pc = "seeded", !.user = u,
                                         !.img = img,
                                         !.override = override_emotion,
                                         !.path = UploadPath(nextFile + 1)]]
    /\ UNCHANGED <<deepface, users, facial, files, session, pwdOk, faceOk,
                   resp, din, dout, first, last, enrollments, stream>>

\* the extractor draws the embedding and the landmarks from the generator
ThreadGenerate(t) ==
    /\ threads[t].pc = "seeded"
    /\ LET h == ImageHash(threads[t].img, 0)
           dominant_emotion == emotions[(h.word % Len(emotions)) + 1]
       IN  /\ threads' = [threads EXCEPT
                  ![t].pc = "extracted",
                  ![t].data = DataDict(ObservationKeys,
                                       Draw(rng, EncodingDim),
                                       dominant_emotion,
                                       DominantScores(dominant_emotion))]
           /\ rng' = Advance(rng, EncodingDim + LandmarkDraws)
    /\ UNCHANGED <<deepface, users, facial, files, nextFile, session, pwdOk,
                   faceOk, resp, din, dout, first, last, enrollments, stream>>

\* the image is written and the row of the user is queried
ThreadQuery(t) ==
    /\ threads[t].pc = "extracted"
    /\ files' = files \cup {threads[t].path}
    /\ threads' = [threads EXCEPT
                      ![t].pc = "queried",
                      ![t].existing = FilterByFirst(threads[t].user)]
    /\ UNCHANGED <<deepface, users, facial, nextFile, session, pwdOk, faceOk,
                   resp, din, dout, rng, first, last, enrollments, stream>>

\* the row is updated or added, and the session committed
ThreadCommit(t) ==
    /\ threads[t].pc = "queried"
    /\ LET th == threads[t]
           detected_emotion == Get(th.data, "dominantEmotion", "neutral")
           dominant_emotion == IF Truthy(th.override)
                               THEN th.override
                               ELSE detected_emotion
           emotion_scores == Get(th.data, "emotionScores", <<>>)
           relative_path == IF Base64Ok(th.img) THEN th.path ELSE NoPath
           row == FacialData(th.user, dominant_emotion, JsonDumps(th.data),
                             JsonDumps(emotion_scores), relative_path)
       IN  /\ facial' = CommitFacialData(facial, th.existing, row)
           /\ resp' = [Response("setup_facial", th.user,
                                IF th.existing # 0 THEN 200 ELSE 201)
                          EXCEPT !.extracted = TRUE,
                                 !.expression = dominant_emotion]
           /\ enrollments' = enrollments \cup {row}
    /\ threads' = [threads EXCEPT ![t] = IdleThread]
    /\ UNCHANGED <<deepface, users, files, nextFile, session, pwdOk, faceOk,
                   din, dout, rng, first, last, stream>>

NextThreads ==
    \/ \E t \in ThreadIds, u \in UserIds, img \in Images, o \in Overrides :
          ThreadSeed(t, u, img, o)
    \/ \E t \in ThreadIds : ThreadGenerate(t)
    \/ \E t \in ThreadIds : ThreadQuery(t)
    \/ \E t \in ThreadIds : ThreadCommit(t)

SpecThreads == InitThreads /\ [][NextThreads]_vars

\* C12: under every interleaving of concurrent setup_facial requests, the
\* facial_data table holds at most one row for each user.
C12_OneRowPerUserUnderConcurrency ==
    \A u \in UserIds : Cardinality(RowsOf(facial, u)) <= 1

\* C16: under every interleaving of concurrent simulated extractions, each
\* extraction returns the embedding it returns when it runs alone on the same
\* input.
C16_ConcurrentExtractionUnaffected ==
    \A t \in ThreadIds :
        threads[t].pc \in {"extracted", "queried"}
        => Get(threads[t].data, "faceEncoding", EmptyList)
              = Get(extract_facial_features(threads[t].img, NoRng, 0).result,
                    "faceEncoding", EmptyList)

-----------------------------------------------------------------------------
(* Probes in which no face is found, and images that cannot be decoded *)

\* the last request was a verification whose extraction reported no face
NoFaceInProbe ==
    /\ resp.op \in {"verify_facial", "login_verify"}
    /\ resp.noFace

\* C13: in verify_facial and in login_verify, a probe in which no face is
\* found does not fail the request: the decision function runs on a
\* substituted observation whose dominant expression is the stored one.
C13_NoFaceIsSubstituted ==
    NoFaceInProbe
    => /\ resp.status = 200
       /\ resp.decided
       /\ resp.detectedEmotion = resp.storedEmotion

\* the response reports an error of its own for the image: no row written, no
\* decision taken, and not the answer given when no face is found
DecodeErrorSurfaced ==
    /\ resp'.status >= 400
    /\ ~resp'.decided
    /\ ~resp'.noFace
    /\ resp'.error # "Could not detect face in image"
    /\ facial' = facial

\* C20: an image that cannot be decoded is answered with an error of its own,
\* distinct from the no-face outcome; setup_facial, verify_facial and
\* login_verify do not substitute an observation for it.
C20_DecodeErrorIsSurfaced ==
    [][\A u \in UserIds, img \in Images :
          ~Base64Ok(img)
          => /\ \A o \in Overrides :
                   (/\ resp'.op = "setup_facial"
                    /\ resp'.user = u
                    /\ setup_facial(u, img, o))
                   => DecodeErrorSurfaced
             /\ (/\ resp'.op = "verify_facial"
                 /\ resp'.user = u
                 /\ RowsOf(facial, u) # {}
                 /\ verify_facial(u, img))
                => DecodeErrorSurfaced
             /\ (/\ resp'.op = "login_verify"
                 /\ resp'.user = u
                 /\ RowsOf(facial, u) # {}
                 /\ login_verify(u, img))
                => DecodeErrorSurfaced]_vars

-----------------------------------------------------------------------------
(* Enrollment followed by verification, in simulated mode *)

\* the row of user u holds the observation the simulated extractor returns
\* for image img
EnrolledWith(u, img) ==
    /\ ~deepface
    /\ \E i \in RowsOf(facial, u) :
          /\ \A j \in RowsOf(facial, u) : i <= j
          /\ JsonLoads(facial[i].facial_data)
                = extract_facial_features(img, NoRng, 0).result

\* C17: in simulated mode, once user u is enrolled with image X (with or
\* without an expression override), verify_facial and login_verify of u with
\* the same image X answer match=true with a confidence of at least 0.6.
C17_EnrollThenVerifySameImage ==
    [][(~deepface /\ resp'.op \in {"verify_facial", "login_verify"})
       => \A img \in Images :
             LET u == resp'.user
             IN  (/\ EnrolledWith(u, img)
                  /\ (verify_facial(u, img) \/ login_verify(u, img)))
                 => /\ resp'.status = 200
                    /\ resp'.decided
                    /\ resp'.match
                    /\ resp'.confidence >= DefaultThreshold * Scale]_vars

\* a user enrolled with an expression override was verified with the image of
\* the enrollment
C17_Witness ==
    /\ ~deepface
    /\ resp.op \in {"verify_facial", "login_verify"}
    /\ resp.match
    /\ resp.confidence = Scale * Scale
    /\ \E i \in RowsOf(facial, resp.user) :
          /\ facial[i].expression = "angry"
          /\ Get(JsonLoads(facial[i].facial_data), "dominantEmotion", "")
                = resp.detectedEmotion

-----------------------------------------------------------------------------
(* The two paths that follow the identity verifier, checked under          *)
(* SpecDecide                                                              *)

\* 1 - min(distance, 1) of the distance the verifier reported
DinFaceSimilarity ==
    Scale - (IF din.verify.distance <= Scale THEN din.verify.distance
             ELSE Scale)

\* C21: when the identity verifier reports verified=true and the stored and
\* probe dominant expressions are equal, the result is matched=true with
\* confidence = 0.8 * faceSimilarity + 0.2, faceSimilarity = 1 - min(distance,
\* 1).
C21_BothPassFormula ==
    (Decided /\ VerifierReported /\ din.verify.verified /\ SameExpression)
        => /\ dout.r.kind = "return"
           /\ dout.r.matched
           /\ dout.r.confidence
                = FaceFactor * DinFaceSimilarity + EmotionBonus * Scale

\* a verified face with the same expression at distance 0.5 was accepted with
\* confidence 0.6
C21_Witness ==
    /\ Decided
    /\ VerifierReported
    /\ din.verify.verified
    /\ SameExpression
    /\ din.verify.distance = 500
    /\ dout.r.matched
    /\ dout.r.confidence = 600 * Scale

\* C22: when the identity verifier reports verified=false, the result is
\* matched=true with confidence = max(0, 1 - distance) exactly when the
\* dominant expressions are equal and distance < 0.6; every other
\* not-verified case yields (false, 0.0).
C22_FallbackFormula ==
    (Decided /\ VerifierReported /\ ~din.verify.verified)
        => /\ dout.r.kind = "return"
           /\ dout.r.matched
                <=> (SameExpression /\ din.verify.distance < AlternativeDistance)
           /\ dout.r.confidence
                = (IF SameExpression /\ din.verify.distance < AlternativeDistance
                   THEN (IF Scale - din.verify.distance > 0
                         THEN Scale - din.verify.distance ELSE 0) * Scale
                   ELSE 0)

\* an unverified face with the same expression at distance exactly 0.6 was
\* rejected with confidence 0.0
C22_Witness ==
    /\ Decided
    /\ VerifierReported
    /\ ~din.verify.verified
    /\ SameExpression
    /\ din.verify.distance = AlternativeDistance
    /\ ~dout.r.matched
    /\ dout.r.confidence = 0

\* the embeddings handed to the blended scorer
DinStoredEncoding == Get(din.stored, "faceEncoding", EmptyList)

DinCurrentEncoding == Get(din.current, "faceEncoding", EmptyList)

\* an embedding is missing or empty
EitherEmbeddingEmpty ==
    DinStoredEncoding.elems = <<>> \/ DinCurrentEncoding.elems = <<>>

\* the embeddings have different dimensions, as those of two different
\* extractors have
DifferentDimension ==
    /\ ~EitherEmbeddingEmpty
    /\ Len(DinStoredEncoding.elems) # Len(DinCurrentEncoding.elems)

\* C23 as stated: the blended scorer answers (false, 0.0), without raising,
\* whenever either embedding is empty or the two observations come from
\* incompatible extractors (embeddings of different dimension).
C23_IncompatibleObservationsRejected ==
    (Decided /\ ~din.deepface /\ BothDicts
     /\ (EitherEmbeddingEmpty \/ DifferentDimension))
        => /\ dout.r.kind = "return"
           /\ ~dout.r.matched
           /\ dout.r.confidence = 0

-----------------------------------------------------------------------------
(* A verification served while the same user enrolls again, in simulated    *)
(* mode: the steps of verify_facial and setup_facial that read or write the *)
(* facial_data table and the upload directory                               *)

\* mutant: every read of an attribute fetches the column from the table again
RowAttribute_Refreshed(loaded, current) == current

\* a read of an attribute of the object that .first() returned: the value the
\* query loaded; the session of the request never commits, so nothing expires
\* the object
RowAttribute(loaded, current) == loaded

\* the file of the enrollment each user starts with
InitialPath(u) == UploadPath(0 - u)

\* the row written by POST /setup-facial with imgA and no override
InitialRow(u) ==
    FacialData(u, "happy", JsonDumps(SimulatedFeatures("imgA")),
               JsonDumps(DominantScores("happy")), InitialPath(u))

\* every user is registered and enrolled once
InitRace ==
    /\ deepface = FALSE
    /\ users = [u \in UserIds |-> hash_password("pw1")]
    /\ facial = [u \in UserIds |-> InitialRow(u)]
    /\ files = {InitialPath(u) : u \in UserIds}
    /\ nextFile = 0
    /\ session = [u \in UserIds |-> "PasswordPending"]
    /\ pwdOk = [u \in UserIds |-> FALSE]
    /\ faceOk = [u \in UserIds |-> FALSE]
    /\ resp = NoResp
    /\ din = NoCall
    /\ dout = NoCall
    /\ rng \in {[seed |-> s, pos |-> 0] : s \in ClockSeeds}
    /\ threads = [t \in ThreadIds |-> IdleThread]
    /\ first = <<>>
    /\ last = NoCall
    /\ enrollments = {InitialRow(u) : u \in UserIds}
    /\ stream = NoStream

\* the enrollment request arrives and the extractor runs; the use the
\* extractor makes of the generator is one step here, its interleavings are
\* those of SpecThreads
ThreadExtract(t, u, img, override_emotion) ==
    /\ threads[t].pc = "idle"
    /\ u \in DOMAIN users
    /\ nextFile < MaxFiles
    /\ nextFile' = nextFile + 1
    /\ LET e == extract_facial_features(img, rng, 0)
       IN  /\ rng' = e.rng
           /\ threads' = [threads EXCEPT ![t] =
                  [IdleThread EXCEPT !.pc = "extracted", !.user = u,
                                     !.img = img,
                                     !.override = override_emotion,
                                     !.data = e.result,
                                     !.path = UploadPath(nextFile + 1)]]
    /\ UNCHANGED <<deepface, users, facial, files, session, pwdOk, faceOk,
                   resp, din, dout, first, last, enrollments, stream>>

\* the verification request arrives and the row of the user is queried
ThreadVerifyQuery(t, u, img) ==
    /\ threads[t].pc = "idle"
    /\ u \in DOMAIN users
    /\ nextFile < MaxFiles
    /\ IF FilterByFirst(u) = 0
       THEN /\ resp' = NotEnrolled("verify_facial", u)
            /\ UNCHANGED <<threads, nextFile>>
       ELSE /\ threads' = [threads EXCEPT ![t] =
                    [IdleThread EXCEPT !.pc = "vqueried", !.user = u,
                                       !.img = img,
                                       !.path = UploadPath(nextFile + 1),
                                       !.existing = FilterByFirst(u),
                                       !.row = <<facial[FilterByFirst(u)]>>]]
            /\ nextFile' = nextFile + 1
            /\ UNCHANGED resp
    /\ UNCHANGED <<deepface, users, facial, files, session, pwdOk, faceOk,
                   din, dout, rng, first, last, enrollments, stream>>

\* current_data = process_image_base64(...), then
\* stored_data = json.loads(facial_data.facial_data)
ThreadVerifyLoad(t) ==
    /\ threads[t].pc = "vqueried"
    /\ LET th == threads[t]
           e == extract_facial_features(th.img, rng, 0)
           facial_data == RowAttribute(th.row[1], facial[th.existing])
       IN  /\ threads' = [threads EXCEPT
                  ![t].pc = "vloaded",
                  ![t].data = e.result,
                  ![t].stored = JsonLoads(facial_data.facial_data)]
           /\ rng' = e.rng
    /\ UNCHANGED <<deepface, users, facial, files, nextFile, session, pwdOk,
                   faceOk, resp, din, dout, first, last, enrollments, stream>>

\* stored_data['imagePath'] is set when facial_data.image_path names a file
ThreadVerifyPath(t) ==
    /\ threads[t].pc = "vloaded"
    /\ LET th == threads[t]
           facial_data == RowAttribute(th.row[1], facial[th.existing])
       IN  threads' = [threads EXCEPT
               ![t].pc = "vpathed",
               ![t].stored = IF facial_data.image_path # NoPath
                                /\ facial_data.image_path \in files
                             THEN With(@, "imagePath", facial_data.image_path)
                             ELSE @]
    /\ UNCHANGED <<deepface, users, facial, files, nextFile, session, pwdOk,
                   faceOk, resp, din, dout, rng, first,
                   last, enrollments, stream>>

\* the probe image is saved, the two observations are compared and the
\* response is sent
ThreadVerifyCompare(t) ==
    /\ threads[t].pc = "vpathed"
    /\ LET th == threads[t]
           r == compare_facial_expressions(deepface, th.stored, th.data, <<>>,
                    AppConfig, files \cup {th.path}, NoVerify)
       IN  /\ files' = (files \cup {th.path}) \ r.unlinked
           /\ resp' = VerifyResponse("verify_facial", th.user, r, th.stored,
                                     th.data)
    /\ threads' = [threads EXCEPT ![t] = IdleThread]
    /\ UNCHANGED <<deepface, users, facial, nextFile, session, pwdOk, faceOk,
                   din, dout, rng, first, last, enrollments, stream>>

\* images of the new enrollments: one that is saved and one that cannot be
\* decoded, both with an observation other than the initial one
RaceImages == {"imgB", "junk"}

\* the probe of the verifications; it plays no part in what is read of the
\* table
RaceProbes == {"imgA"}

NextRace ==
    \/ \E t \in ThreadIds, u \in UserIds, img \in RaceImages :
          ThreadExtract(t, u, img, "None")
    \/ \E t \in ThreadIds : ThreadQuery(t)
    \/ \E t \in ThreadIds : ThreadCommit(t)
    \/ \E t \in ThreadIds, u \in UserIds, img \in RaceProbes :
          ThreadVerifyQuery(t, u, img)
    \/ \E t \in ThreadIds : ThreadVerifyLoad(t)
    \/ \E t \in ThreadIds : ThreadVerifyPath(t)
    \/ \E t \in ThreadIds : ThreadVerifyCompare(t)

SpecRace == InitRace /\ [][NextRace]_vars

\* stored_data of thread t without the imagePath the route added to it
StoredObservation(t) ==
    [threads[t].stored EXCEPT !.keys = @ \ {"imagePath"},
                              !.val.imagePath = NoPath]

\* what thread t is about to compare against comes from the enrollment e
FromEnrollment(t, e) ==
    /\ e.user_id = threads[t].user
    /\ StoredObservation(t) = JsonLoads(e.facial_data)
    /\ IF "imagePath" \in threads[t].stored.keys
       THEN threads[t].stored.val.imagePath = e.image_path
       ELSE e.image_path = NoPath \/ e.image_path \notin files

\* C24: a verify that runs while the same user enrolls again never uses a
\* half-written record: under every interleaving the expression, the
\* observation and the reference image path it compares against all come from
\* one enrollment, the old one or the new one.
C24_VerifySeesOneEnrollment ==
    \A t \in ThreadIds :
        threads[t].pc = "vpathed"
        => \E e \in enrollments : FromEnrollment(t, e)

\* a verification is about to compare against the old enrollment after the
\* row it queried was overwritten by a new one
C24_Witness ==
    \E t \in ThreadIds :
        /\ threads[t].pc = "vpathed"
        /\ facial[threads[t].existing] # threads[t].row[1]
        /\ FromEnrollment(t, threads[t].row[1])

-----------------------------------------------------------------------------
(* The expression of the record and the expression verification uses *)

\* C26 as stated: the expression that enroll reported and persisted as the
\* record's expression (the override when given, otherwise the detected
\* dominant expression) is the one every later verification of the user
\* compares the probe against and reports as storedEmotion.
C26_VerifyUsesRecordExpression ==
    (resp.op \in {"verify_facial", "login_verify"} /\ resp.decided)
        => resp.storedEmotion
              = facial[FirstFacialIndex(resp.user)].expression

-----------------------------------------------------------------------------
(* The probe handed to the identity verifier *)

\* the record of user u names an image file that exists
ReferenceExists(u) ==
    /\ HasFacialAuth(u)
    /\ facial[FirstFacialIndex(u)].image_path \in files

\* C27 as stated: with the real analyser, verify_facial and the self-match of
\* stream_analyze give the decision function a probe on which the pairwise
\* identity check can run: when extraction of the probe succeeded and the
\* stored reference image exists, compare_facial_expressions reaches
\* DeepFace.verify.
C27_ProbeReachesVerifier ==
    (deepface /\ resp.op \in {"verify_facial", "stream_analyze"}
     /\ resp.decided /\ ~resp.noFace /\ ReferenceExists(resp.user))
        => resp.verifier

-----------------------------------------------------------------------------
(* Frames of a stream *)

\* C28 as stated: over every sequence of stream_analyze requests in which the
\* client sends back the frameCount it received, a frame is analysed in full
\* (status 'analyzed') only after 5 frames with a face in a row; a frame
\* without a face during accumulation restarts the count.
C28_AnalysisAfterConsecutiveFaces ==
    [][(resp'.op = "stream_analyze" /\ resp'.streamStatus = "analyzed")
       => stream.streak >= FramesRequired]_vars

-----------------------------------------------------------------------------
(* Files and rows that verification leaves behind *)

\* C29 as stated: the image login_verify saves for later analysis is kept:
\* after the comparison, whatever its outcome, the file still exists.
C29_VerificationImageKept ==
    (resp.op = "login_verify" /\ resp.decided)
        => UploadPath(nextFile) \in files

\* the requests that verify or read
ReadOperations ==
    {"verify_facial", "login_verify", "stream_analyze", "get_facial_status",
     "get_detailed_facial_data"}

\* C30: verify_facial, login_verify, stream_analyze, status and detailed-data
\* leave every row of facial_data and every user unchanged on every outcome;
\* only setup_facial and register write.
C30_VerificationIsReadOnly ==
    [][(resp'.op \in ReadOperations => (facial' = facial /\ users' = users))
       /\ ((facial' # facial \/ users' # users)
              => resp'.op \in {"setup_facial", "register"})]_vars

\* a verification of an enrolled user ended in a match and the row of the
\* user is the one the enrollment wrote
C30_Witness ==
    /\ resp.op = "verify_facial"
    /\ resp.decided
    /\ resp.match
    /\ Cardinality(RowsOf(facial, resp.user)) = 1
    /\ resp.storedEmotion
          = JsonLoads(facial[FirstFacialIndex(resp.user)].facial_data)
               .val.dominantEmotion

====
